---- MODULE Spec2Model ----
(***************************************************************************)
(* pgen: the grammar-to-parser-tables compiler of parso/pgen2/pgen.py.     *)
(*                                                                         *)
(* Two state machines are modelled.                                        *)
(*   SpecDfa  the body of generate_grammar's loop for one rule:            *)
(*            _make_dfas (subset construction) followed by _simplify_dfas. *)
(*   Spec     ParserGenerator.make_grammar: _addfirstsets / _calcfirst,    *)
(*            symbol numbering, arc translation with _make_label and       *)
(*            _make_first.                                                 *)
(* Python dicts are modelled as sequences in insertion order, objects      *)
(* (DFAState) as indices into a heap.                                      *)
(***************************************************************************)
EXTENDS Naturals, Integers, Sequences, FiniteSets, TLC

VARIABLES
    pc,       \* position in the program
    nfa,      \* SpecDfa: the NFA fragment (start, finish) given to _make_dfas
    heap,     \* SpecDfa: the DFAState objects, by object id
    dfas,     \* SpecDfa: the list `states` / `dfas`: a sequence of object ids
    idx,      \* SpecDfa: the loop index (1-based) of the running for loop
    changes,  \* SpecDfa: _simplify_dfas' flag
    raw,      \* SpecDfa: history, the heap and list as _make_dfas returned them
    passes,   \* SpecDfa: history, the iterations of `while changes` begun
    rules,    \* Spec: self.dfas, rule name -> list of DFAState
    ns,       \* Spec: self._token_namespace
    first,    \* Spec: self._first
    stack,    \* Spec: the frames of the running _calcfirst calls
    grammar,  \* Spec: the Grammar being filled
    loc,      \* Spec: make_grammar's and _make_first's loop variables
    err,      \* Spec: the exception raised, if any
    call,     \* Spec: history, the last call of _make_label
    assigned, \* Spec: history, label text -> the id _make_label returned for it
    names     \* Spec: the sorted rule names of lines 35-36 and 112-113

varsDfa == <<nfa, heap, dfas, idx, changes, raw, passes>>

varsGrammar == <<rules, ns, first, stack, grammar, loc, err, call, assigned, names>>

vars == <<pc, varsDfa, varsGrammar>>

(***************************************************************************)
(* Bounds of the model.                                                    *)
(***************************************************************************)
NStates == 3      \* NFA states of an enumerated fragment
MaxNfaArcs == 2   \* arcs of an enumerated fragment
MaxWord == 4      \* length of the label sequences compared

(***************************************************************************)
(* Sequence helpers.                                                       *)
(***************************************************************************)
InSeq(x, s) == \E n \in 1..Len(s) : s[n] = x

SeqSet(s) == {s[n] : n \in 1..Len(s)}

RemoveAt(s, n) == SubSeq(s, 1, n - 1) \o SubSeq(s, n + 1, Len(s))

SetMin(S) == CHOOSE x \in S : \A y \in S : x <= y

(***************************************************************************)
(* NFA fragments.  An arc is <<source, label, target>>; the label None is  *)
(* an epsilon arc.  A state's arc list is the arcs leaving it, in order.   *)
(***************************************************************************)
None == "None"

NfaLabels == {"a", "b"}

NFAState_arcs(N, state) == SelectSeq(N.arcs, LAMBDA t : t[1] = state)

\* The arcs an enumerated fragment may have, numbered 0 .. NArcCodes-1.
ArcLabelSeq == <<None, "a", "b">>

NArcCodes == NStates * 3 * NStates

ArcOfCode(c) ==
    <<(c \div (3 * NStates)) + 1, ArcLabelSeq[((c \div NStates) % 3) + 1], (c % NStates) + 1>>

RECURSIVE Reachable(_, _)
\* the states that arcs of the sequence `arcs` lead to from the states S
Reachable(arcs, S) ==
    LET T == S \cup {arcs[n][3] : n \in {m \in 1..Len(arcs) : arcs[m][1] \in S}}
    IN IF T = S THEN S ELSE Reachable(arcs, T)

\* The fragments of up to MaxNfaArcs arcs over NStates states: the arcs in the order of
\* their numbers, each leaving a state that the start state leads to
SmallNfas ==
    { N \in { [arcs |-> [n \in 1..Len(cs) |-> ArcOfCode(cs[n])], start |-> 1, finish |-> f] :
                cs \in UNION { { s \in [1..m -> 0..(NArcCodes - 1)] :
                                    \A n \in 1..(m - 1) : s[n] < s[n + 1] } : m \in 0..MaxNfaArcs },
                f \in 1..NStates } :
        \A n \in 1..Len(N.arcs) : N.arcs[n][1] \in Reachable(N.arcs, {N.start}) }

\* start: 'a' 'b' | 'a' 'c'
NfaAbAc ==
    [arcs |-> << <<1, None, 3>>, <<1, None, 7>>,
                 <<3, "'a'", 4>>, <<4, None, 5>>, <<5, "'b'", 6>>, <<6, None, 2>>,
                 <<7, "'a'", 8>>, <<8, None, 9>>, <<9, "'c'", 10>>, <<10, None, 2>> >>,
     start |-> 1, finish |-> 2]

\* start: ('a' | 'b') 'c'
NfaAorBthenC ==
    [arcs |-> << <<1, None, 3>>, <<1, None, 5>>,
                 <<3, "'a'", 4>>, <<4, None, 2>>,
                 <<5, "'b'", 6>>, <<6, None, 2>>,
                 <<2, None, 7>>, <<7, "'c'", 8>> >>,
     start |-> 1, finish |-> 8]

\* start: 'a' 'c' | 'b' 'c'  -- the second merge needs the first one's redirection
NfaAcBc ==
    [arcs |-> << <<1, None, 3>>, <<1, None, 7>>,
                 <<3, "'a'", 4>>, <<4, None, 5>>, <<5, "'c'", 6>>, <<6, None, 2>>,
                 <<7, "'b'", 8>>, <<8, None, 9>>, <<9, "'c'", 10>>, <<10, None, 2>> >>,
     start |-> 1, finish |-> 2]

\* start: ('a' | 'b'*)+ 'c'  -- epsilon cycles and labelled loops
NfaRepeat ==
    [arcs |-> << <<1, None, 3>>, <<1, None, 5>>,
                 <<3, "'a'", 4>>, <<4, None, 2>>,
                 <<5, "'b'", 6>>, <<6, None, 5>>, <<5, None, 2>>,
                 <<2, None, 1>>, <<2, None, 7>>, <<7, "'c'", 8>> >>,
     start |-> 1, finish |-> 8]

FixtureNfas == {NfaAbAc, NfaAorBthenC, NfaAcBc, NfaRepeat}

(***************************************************************************)
(* DFAState                                                                *)
(***************************************************************************)
DFAState(nfaset, final) ==
    [nfaset |-> nfaset, isfinal |-> InSeq(final, nfaset), arcs |-> <<>>]

\* dict lookup in a DFAState's arcs: the target id, or 0 for Python's None
arcs_get(arcs, label) ==
    IF \E n \in 1..Len(arcs) : arcs[n][1] = label
    THEN arcs[CHOOSE n \in 1..Len(arcs) : arcs[n][1] = label][2]
    ELSE 0

\* unifystate without lines 166-168: no arc is redirected
unifystate_skipped(self, old, new) == self

unifystate(self, old, new) ==
    [self EXCEPT !.arcs = [n \in 1..Len(self.arcs) |->
        IF self.arcs[n][2] = old THEN <<self.arcs[n][1], new>> ELSE self.arcs[n]]]

\* __eq__ without line 173: the isfinal flags are not compared
DFAState_eq_arcs_only(hp, a, b) ==
    /\ Len(hp[a].arcs) = Len(hp[b].arcs)
    /\ \A n \in 1..Len(hp[a].arcs) :
          hp[a].arcs[n][2] = arcs_get(hp[b].arcs, hp[a].arcs[n][1])

\* DFAState.__eq__ on the objects with ids a and b of heap hp
DFAState_eq(hp, a, b) ==
    /\ hp[a].isfinal = hp[b].isfinal
    /\ Len(hp[a].arcs) = Len(hp[b].arcs)
    /\ \A n \in 1..Len(hp[a].arcs) :
          hp[a].arcs[n][2] = arcs_get(hp[b].arcs, hp[a].arcs[n][1])

(***************************************************************************)
(* _make_dfas                                                              *)
(***************************************************************************)
RECURSIVE addclosure(_, _, _)
RECURSIVE addclosure_arcs(_, _, _)

\* the loop of lines 227-229 over the rest `arcs` of a state's arc list
addclosure_arcs(N, arcs, base) ==
    IF arcs = <<>> THEN base
    ELSE addclosure_arcs(N, Tail(arcs),
            IF Head(arcs)[2] = None THEN addclosure(N, Head(arcs)[3], base) ELSE base)

addclosure(N, state, base) ==
    IF InSeq(state, base) THEN base
    ELSE addclosure_arcs(N, NFAState_arcs(N, state), Append(base, state))

\* closure without addclosure's walk along the epsilon arcs
closure_state_only(N, state) == <<state>>

closure(N, state) == addclosure(N, state, <<>>)

\* arcs.setdefault(label, {}) followed by addclosure(next, ...), lines 236-237
arcs_setdefault_addclosure(N, d, label, next) ==
    IF \E n \in 1..Len(d) : d[n].label = label
    THEN LET n == CHOOSE m \in 1..Len(d) : d[m].label = label
         IN [d EXCEPT ![n].nfaset = addclosure(N, next, @)]
    ELSE Append(d, [label |-> label, nfaset |-> addclosure(N, next, <<>>)])

RECURSIVE move_arcs(_, _, _, _)
\* lines 233-237: the dict `arcs` of a DFA state, label -> nfaset; `todo` is the rest of
\* state.nfaset and `arcs` the rest of the arc list of the NFA state being visited
move_arcs(N, todo, arcs, d) ==
    IF arcs # <<>>
    THEN move_arcs(N, todo, Tail(arcs),
            IF Head(arcs)[2] # None
            THEN arcs_setdefault_addclosure(N, d, Head(arcs)[2], Head(arcs)[3])
            ELSE d)
    ELSE IF todo # <<>>
    THEN move_arcs(N, Tail(todo), NFAState_arcs(N, Head(todo)), d)
    ELSE d

RECURSIVE link_arcs(_, _, _, _)
\* lines 238-245: for each (label, nfaset) find the state with that nfaset or append a
\* new one, and add the arc to the state with id k
link_arcs(hp, k, d, finish) ==
    IF d = <<>> THEN hp
    ELSE LET e == Head(d)
             found == {n \in 1..Len(hp) : SeqSet(hp[n].nfaset) = SeqSet(e.nfaset)}
             hp1 == IF found = {} THEN Append(hp, DFAState(e.nfaset, finish)) ELSE hp
             st == IF found = {} THEN Len(hp1) ELSE SetMin(found)
         IN link_arcs([hp1 EXCEPT ![k].arcs = Append(@, <<e.label, st>>)], k, Tail(d), finish)

\* one iteration of `for state in states`, lines 232-245
_make_dfas_body(N, hp, k) ==
    link_arcs(hp, k, move_arcs(N, hp[k].nfaset, <<>>, <<>>), N.finish)

\* line 231
MakeDfasStart ==
    /\ pc = "start"
    /\ heap' = <<DFAState(closure(nfa, nfa.start), nfa.finish)>>
    /\ idx' = 1
    /\ pc' = "make_dfas"
    /\ UNCHANGED <<nfa, dfas, changes, raw, passes, varsGrammar>>

\* lines 232-245
MakeDfasLoop ==
    /\ pc = "make_dfas"
    /\ idx <= Len(heap)
    /\ heap' = _make_dfas_body(nfa, heap, idx)
    /\ idx' = idx + 1
    /\ UNCHANGED <<pc, nfa, dfas, changes, raw, passes, varsGrammar>>

\* line 246, generate_grammar line 287 and _simplify_dfas line 194
MakeDfasReturn ==
    /\ pc = "make_dfas"
    /\ idx > Len(heap)
    /\ dfas' = [n \in 1..Len(heap) |-> n]
    /\ raw' = [heap |-> heap, dfas |-> dfas']
    /\ changes' = TRUE
    /\ pc' = "while"
    /\ UNCHANGED <<nfa, heap, idx, passes, varsGrammar>>

(***************************************************************************)
(* _simplify_dfas                                                          *)
(***************************************************************************)
\* the inner loop of lines 198-200 never finding an equal state
first_equal_never(hp, ds, i) == 0

\* the first j > i with dfas[i] == dfas[j] (lines 198-200), or 0
first_equal(hp, ds, i) ==
    LET S == {j \in (i + 1)..Len(ds) : DFAState_eq(hp, ds[i], ds[j])}
    IN IF S = {} THEN 0 ELSE SetMin(S)

\* lines 202-204: del dfas[j]; every remaining state unifies state_j into state_i
merge_heap(hp, ds, i, j) ==
    LET rest == RemoveAt(ds, j)
    IN [n \in 1..Len(hp) |->
          IF InSeq(n, rest) THEN unifystate(hp[n], ds[j], ds[i]) ELSE hp[n]]

\* lines 195-196, and generate_grammar line 292 when the loop ends
SimplifyWhile ==
    /\ pc = "while"
    /\ IF changes
       THEN /\ changes' = FALSE
            /\ idx' = 1
            /\ passes' = passes + 1
            /\ pc' = "for"
       ELSE /\ pc' = "done"
            /\ UNCHANGED <<changes, idx, passes>>
    /\ UNCHANGED <<nfa, heap, dfas, raw, varsGrammar>>

\* lines 197-206: one iteration of the outer for loop (the inner loop runs to its break)
SimplifyFor ==
    /\ pc = "for"
    /\ idx <= Len(dfas)
    /\ LET j == first_equal(heap, dfas, idx)
       IN IF j # 0
          THEN /\ dfas' = RemoveAt(dfas, j)
               /\ heap' = merge_heap(heap, dfas, idx, j)
               /\ changes' = TRUE
          ELSE UNCHANGED <<dfas, heap, changes>>
    /\ idx' = idx + 1
    /\ UNCHANGED <<pc, nfa, raw, passes, varsGrammar>>

\* the outer for loop is exhausted
SimplifyForEnd ==
    /\ pc = "for"
    /\ idx > Len(dfas)
    /\ pc' = "while"
    /\ UNCHANGED <<nfa, heap, dfas, idx, changes, raw, passes, varsGrammar>>

\* the variables of make_grammar, which this machine leaves alone
GrammarIdle ==
    /\ rules = <<>>
    /\ ns = <<>>
    /\ first = <<>>
    /\ stack = <<>>
    /\ grammar = <<>>
    /\ loc = <<>>
    /\ err = <<>>
    /\ call = <<>>
    /\ assigned = <<>>
    /\ names = <<>>

InitDfa ==
    /\ pc = "start"
    /\ nfa \in SmallNfas \cup FixtureNfas
    /\ heap = <<>>
    /\ dfas = <<>>
    /\ idx = 0
    /\ changes = FALSE
    /\ raw = [heap |-> <<>>, dfas |-> <<>>]
    /\ passes = 0
    /\ GrammarIdle

NextDfa ==
    \/ MakeDfasStart
    \/ MakeDfasLoop
    \/ MakeDfasReturn
    \/ SimplifyWhile
    \/ SimplifyFor
    \/ SimplifyForEnd

SpecDfa == InitDfa /\ [][NextDfa]_vars

(***************************************************************************)
(* Label texts.  A label is the sequence of its characters: a rule name or *)
(* a terminal class name as written, a literal with its quotes.            *)
(***************************************************************************)
Letters ==
    {"a", "b", "c", "d", "e", "f", "g", "h", "i", "j", "k", "l", "m",
     "n", "o", "p", "q", "r", "s", "t", "u", "v", "w", "x", "y", "z",
     "A", "B", "C", "D", "E", "F", "G", "H", "I", "J", "K", "L", "M",
     "N", "O", "P", "Q", "R", "S", "T", "U", "V", "W", "X", "Y", "Z"}

\* str.isalpha() of one character
isalpha(c) == c \in Letters

Quotes == {"'", "\""}

\* eval() of a string literal: the text between its quotes
eval(label) == SubSeq(label, 2, Len(label) - 1)

\* the characters of names, in the order str comparison gives them
CharOrder ==
    <<"A", "B", "C", "D", "E", "F", "G", "H", "I", "J", "K", "L", "M",
      "N", "O", "P", "Q", "R", "S", "T", "U", "V", "W", "X", "Y", "Z", "_",
      "a", "b", "c", "d", "e", "f", "g", "h", "i", "j", "k", "l", "m",
      "n", "o", "p", "q", "r", "s", "t", "u", "v", "w", "x", "y", "z">>

Ord(c) == CHOOSE n \in 1..Len(CharOrder) : CharOrder[n] = c

RECURSIVE str_lt(_, _)
str_lt(s, t) ==
    IF s = <<>> THEN t # <<>>
    ELSE IF t = <<>> THEN FALSE
    ELSE IF Head(s) = Head(t) THEN str_lt(Tail(s), Tail(t))
    ELSE Ord(Head(s)) < Ord(Head(t))

RECURSIVE sorted(_)
\* list(S) followed by .sort()
sorted(S) ==
    IF S = {} THEN <<>>
    ELSE LET m == CHOOSE x \in S : \A y \in S \ {x} : str_lt(x, y)
         IN <<m>> \o sorted(S \ {m})

(***************************************************************************)
(* The Grammar object make_grammar fills, and the token namespace.         *)
(***************************************************************************)
\* token.NAME
TOKEN_NAME == 1

\* the first symbol number
FIRST_SYMBOL == 256

\* Grammar.__init__: every table empty, label 0 taken by the EMPTY entry
NewGrammar ==
    [symbol2number |-> <<>>, number2symbol |-> <<>>, states |-> <<>>, dfas |-> <<>>,
     labels |-> << <<0, "EMPTY">> >>, keywords |-> <<>>, tokens |-> <<>>,
     symbol2label |-> <<>>, label2symbol |-> <<>>]

NoError == [kind |-> "none", rule |-> <<>>, symbol |-> <<>>, label |-> <<>>, other |-> <<>>]

(***************************************************************************)
(* _make_label                                                             *)
(***************************************************************************)
\* what a call gives: the Grammar after it, the id returned, the branch taken
Returns(g, ilabel, kind) == [g |-> g, ilabel |-> ilabel, kind |-> kind]

\* a failed assert or an exception of the token namespace
Raises(g) == [g |-> g, ilabel |-> 0, kind |-> "error"]

\* lines 82-87 and 104-109
token_label(g, itoken, kind) ==
    IF itoken \in DOMAIN g.tokens
    THEN Returns(g, g.tokens[itoken], kind)
    ELSE Returns([g EXCEPT !.labels = Append(@, <<itoken, None>>),
                           !.tokens = @ @@ (itoken :> Len(g.labels))],
                 Len(g.labels), kind)

\* lines 94-100 without the lookup of line 94: a label is appended on every call
keyword_label_always_new(g, value) ==
    Returns([g EXCEPT !.labels = Append(@, <<TOKEN_NAME, value>>),
                      !.keywords = (value :> Len(g.labels)) @@ @],
            Len(g.labels), "keyword")

\* lines 94-100
keyword_label(g, value) ==
    IF value \in DOMAIN g.keywords
    THEN Returns(g, g.keywords[value], "keyword")
    ELSE Returns([g EXCEPT !.labels = Append(@, <<TOKEN_NAME, value>>),
                           !.keywords = @ @@ (value :> Len(g.labels))],
                 Len(g.labels), "keyword")

\* lines 69-77
symbol_label(g, label) ==
    IF label \in DOMAIN g.symbol2label
    THEN Returns(g, g.symbol2label[label], "symbol")
    ELSE Returns([g EXCEPT !.labels = Append(@, <<g.symbol2number[label], None>>),
                           !.symbol2label = @ @@ (label :> Len(g.labels)),
                           !.label2symbol = @ @@ (Len(g.labels) :> label)],
                 Len(g.labels), "symbol")

\* _make_label with the test of line 69 put before the test of line 67: a label that
\* names a rule is a symbol whatever its first character
_make_label_rule_first(tn, g, label) ==
    IF label \in DOMAIN g.symbol2number
    THEN symbol_label(g, label)
    ELSE IF isalpha(label[1])
         THEN IF label \in DOMAIN tn.named
              THEN token_label(g, tn.named[label], "token")
              ELSE Raises(g)
         ELSE IF label[1] \notin Quotes \/ Len(label) < 3
              THEN Raises(g)
              ELSE IF isalpha(eval(label)[1])
                   THEN keyword_label(g, eval(label))
                   ELSE IF eval(label) \in DOMAIN tn.ops
                        THEN token_label(g, tn.ops[eval(label)], "operator")
                        ELSE Raises(g)

\* lines 64-109
_make_label(tn, g, label) ==
    IF isalpha(label[1])
    THEN IF label \in DOMAIN g.symbol2number
         THEN symbol_label(g, label)
         ELSE IF label \in DOMAIN tn.named
              THEN token_label(g, tn.named[label], "token")
              ELSE Raises(g)
    ELSE IF label[1] \notin Quotes \/ Len(label) < 3
         THEN Raises(g)
         ELSE IF isalpha(eval(label)[1])
              THEN keyword_label(g, eval(label))
              ELSE IF eval(label) \in DOMAIN tn.ops
                   THEN token_label(g, tn.ops[eval(label)], "operator")
                   ELSE Raises(g)

(***************************************************************************)
(* _addfirstsets and _calcfirst.  A slot of self._first is absent (not yet *)
(* computed), InProgress (Python's None) or a computed set; a set is a     *)
(* dict, kept as the sequence of its keys.                                 *)
(***************************************************************************)
InProgress == [inprogress |-> TRUE, fset |-> <<>>]

Computed(fset) == [inprogress |-> FALSE, fset |-> fset]

\* the arcs of dfa[0], the start state of a rule
start_arcs(name) == rules[name][1].arcs

\* lines 120-124: a call's frame as the loop of line 125 begins
Frame(name) == [name |-> name, pos |-> 1, totalset |-> <<>>, overlapcheck |-> <<>>]

\* dict.update and a dict store, on key sequences
dict_update(d, keys) == d \o SelectSeq(keys, LAMBDA x : ~InSeq(x, d))

RECURSIVE overlap_pairs(_, _)
\* lines 140-141: the (symbol, label) pairs in the order the two loops visit them
overlap_pairs(overlapcheck, n) ==
    IF n > Len(overlapcheck) THEN <<>>
    ELSE [m \in 1..Len(overlapcheck[n].fset) |->
             <<overlapcheck[n].fset[m], overlapcheck[n].label>>]
         \o overlap_pairs(overlapcheck, n + 1)

RECURSIVE inverse_check_by_label(_, _, _)
\* lines 139-146 with line 142 looking up the arc's label in place of the symbol
inverse_check_by_label(name, pairs, inverse) ==
    IF pairs = <<>> THEN NoError
    ELSE IF \E n \in 1..Len(inverse) : inverse[n][2] = Head(pairs)[2]
    THEN [kind |-> "ambiguous", rule |-> name, symbol |-> Head(pairs)[1],
          label |-> Head(pairs)[2],
          other |-> inverse[CHOOSE n \in 1..Len(inverse) : inverse[n][2] = Head(pairs)[2]][2]]
    ELSE inverse_check_by_label(name, Tail(pairs), Append(inverse, Head(pairs)))

RECURSIVE inverse_check(_, _, _)
\* lines 139-146: the error raised for rule `name`, or NoError
inverse_check(name, pairs, inverse) ==
    IF pairs = <<>> THEN NoError
    ELSE IF \E n \in 1..Len(inverse) : inverse[n][1] = Head(pairs)[1]
    THEN [kind |-> "ambiguous", rule |-> name, symbol |-> Head(pairs)[1],
          label |-> Head(pairs)[2],
          other |-> inverse[CHOOSE n \in 1..Len(inverse) : inverse[n][1] = Head(pairs)[1]][2]]
    ELSE inverse_check(name, Tail(pairs), Append(inverse, Head(pairs)))

Top == stack[Len(stack)]

\* line 115 finds the name computed already
AddFirstSetsSkip ==
    /\ pc = "addfirstsets"
    /\ stack = <<>>
    /\ loc.ni <= Len(names)
    /\ names[loc.ni] \in DOMAIN first
    /\ loc' = [loc EXCEPT !.ni = @ + 1]
    /\ UNCHANGED <<pc, varsDfa, rules, ns, first, stack, grammar, err, call, assigned, names>>

\* lines 115-116 and 120-124: _calcfirst(name) is entered
AddFirstSetsCall ==
    /\ pc = "addfirstsets"
    /\ stack = <<>>
    /\ loc.ni <= Len(names)
    /\ names[loc.ni] \notin DOMAIN first
    /\ first' = first @@ (names[loc.ni] :> InProgress)
    /\ stack' = <<Frame(names[loc.ni])>>
    /\ loc' = [loc EXCEPT !.ni = @ + 1]
    /\ UNCHANGED <<pc, varsDfa, rules, ns, grammar, err, call, assigned, names>>

\* lines 125-138, an arc whose first set is at hand: a terminal, or a rule computed
CalcFirstArc ==
    /\ pc = "addfirstsets"
    /\ stack # <<>>
    /\ Top.pos <= Len(start_arcs(Top.name))
    /\ LET label == start_arcs(Top.name)[Top.pos][1]
           fset == IF label \in DOMAIN rules THEN first[label].fset ELSE <<label>>
       IN /\ label \in DOMAIN rules => (label \in DOMAIN first /\ ~first[label].inprogress)
          /\ stack' = [stack EXCEPT ![Len(stack)] =
                          [@ EXCEPT !.pos = @ + 1,
                                    !.totalset = dict_update(@, fset),
                                    !.overlapcheck = Append(@, [label |-> label, fset |-> fset])]]
    /\ UNCHANGED <<pc, varsDfa, rules, ns, first, grammar, loc, err, call, assigned, names>>

\* lines 131-132 and 120-124: the arc names a rule not yet computed; the caller goes on
\* at line 133 when the call has returned
CalcFirstCall ==
    /\ pc = "addfirstsets"
    /\ stack # <<>>
    /\ Top.pos <= Len(start_arcs(Top.name))
    /\ LET label == start_arcs(Top.name)[Top.pos][1]
       IN /\ label \in DOMAIN rules
          /\ label \notin DOMAIN first
          /\ first' = first @@ (label :> InProgress)
          /\ stack' = Append(stack, Frame(label))
    /\ UNCHANGED <<pc, varsDfa, rules, ns, grammar, loc, err, call, assigned, names>>

\* lines 127-130 without the test of line 129: the dummy is taken for an empty first set
CalcFirstRecursion_unnoticed ==
    /\ pc = "addfirstsets"
    /\ stack # <<>>
    /\ Top.pos <= Len(start_arcs(Top.name))
    /\ LET label == start_arcs(Top.name)[Top.pos][1]
       IN /\ label \in DOMAIN rules
          /\ label \in DOMAIN first
          /\ first[label].inprogress
          /\ stack' = [stack EXCEPT ![Len(stack)] =
                          [@ EXCEPT !.pos = @ + 1,
                                    !.overlapcheck = Append(@, [label |-> label, fset |-> <<>>])]]
    /\ UNCHANGED <<pc, varsDfa, rules, ns, first, grammar, loc, err, call, assigned, names>>

\* lines 127-130: the arc names a rule whose slot holds the dummy
CalcFirstRecursion ==
    /\ pc = "addfirstsets"
    /\ stack # <<>>
    /\ Top.pos <= Len(start_arcs(Top.name))
    /\ LET label == start_arcs(Top.name)[Top.pos][1]
       IN /\ label \in DOMAIN rules
          /\ label \in DOMAIN first
          /\ first[label].inprogress
    /\ err' = [NoError EXCEPT !.kind = "recursion", !.rule = Top.name]
    /\ pc' = "failed"
    /\ UNCHANGED <<varsDfa, rules, ns, first, stack, grammar, loc, call, assigned, names>>

\* lines 139-147: the overlap check; the set is stored and the call returns, or raises
CalcFirstReturn ==
    /\ pc = "addfirstsets"
    /\ stack # <<>>
    /\ Top.pos > Len(start_arcs(Top.name))
    /\ LET e == inverse_check(Top.name, overlap_pairs(Top.overlapcheck, 1), <<>>)
       IN IF e.kind = "none"
          THEN /\ first' = [first EXCEPT ![Top.name] = Computed(Top.totalset)]
               /\ stack' = SubSeq(stack, 1, Len(stack) - 1)
               /\ UNCHANGED <<pc, err>>
          ELSE /\ err' = e
               /\ pc' = "failed"
               /\ UNCHANGED <<first, stack>>
    /\ UNCHANGED <<varsDfa, rules, ns, grammar, loc, call, assigned, names>>

(***************************************************************************)
(* make_grammar                                                            *)
(***************************************************************************)
RECURSIVE number_symbols(_, _)
\* lines 37-40
number_symbols(g, todo) ==
    IF todo = <<>> THEN g
    ELSE number_symbols(
            [g EXCEPT !.symbol2number =
                          @ @@ (Head(todo) :> FIRST_SYMBOL + Cardinality(DOMAIN g.symbol2number)),
                      !.number2symbol =
                          @ @@ ((FIRST_SYMBOL + Cardinality(DOMAIN g.symbol2number)) :> Head(todo))],
            Tail(todo))

\* list.index: the 0-based position of the first element that is, or equals, dfa[target]
list_index(dfa, target) ==
    SetMin({n \in 1..Len(dfa) : n = target \/ DFAState_eq(dfa, n, target)}) - 1

\* lines 33-40: the first sets are complete; the symbols are numbered
MakeGrammarNumber ==
    /\ pc = "addfirstsets"
    /\ stack = <<>>
    /\ loc.ni > Len(names)
    /\ grammar' = number_symbols(grammar, names)
    /\ loc' = [loc EXCEPT !.ni = 1, !.si = 1, !.ai = 1, !.arcs = <<>>, !.states = <<>>]
    /\ pc' = "rules"
    /\ UNCHANGED <<varsDfa, rules, ns, first, stack, err, call, assigned, names>>

\* lines 46-47: one arc of the state dfa[si - 1] of rule names[ni - 1]
MakeGrammarArc ==
    /\ pc = "rules"
    /\ loc.ni <= Len(names)
    /\ loc.si <= Len(rules[names[loc.ni]])
    /\ loc.ai <= Len(rules[names[loc.ni]][loc.si].arcs)
    /\ LET dfa == rules[names[loc.ni]]
           arc == dfa[loc.si].arcs[loc.ai]
           r == _make_label(ns, grammar, arc[1])
       IN /\ call' = [label |-> arc[1], kind |-> r.kind, ilabel |-> r.ilabel]
          /\ IF r.kind = "error"
             THEN /\ err' = [NoError EXCEPT !.kind = "unknown token", !.label = arc[1]]
                  /\ pc' = "failed"
                  /\ UNCHANGED <<grammar, loc, assigned>>
             ELSE /\ grammar' = r.g
                  /\ assigned' = (arc[1] :> r.ilabel) @@ assigned
                  /\ loc' = [loc EXCEPT !.ai = @ + 1,
                                        !.arcs = Append(@, <<r.ilabel, list_index(dfa, arc[2])>>)]
                  /\ UNCHANGED <<pc, err>>
    /\ UNCHANGED <<varsDfa, rules, ns, first, stack, names>>

\* lines 48-50: the state's arcs are done
MakeGrammarState ==
    /\ pc = "rules"
    /\ loc.ni <= Len(names)
    /\ loc.si <= Len(rules[names[loc.ni]])
    /\ loc.ai > Len(rules[names[loc.ni]][loc.si].arcs)
    /\ LET dfa == rules[names[loc.ni]]
           arcs == IF dfa[loc.si].isfinal
                   THEN Append(loc.arcs, <<0, list_index(dfa, loc.si)>>)
                   ELSE loc.arcs
       IN loc' = [loc EXCEPT !.si = @ + 1, !.ai = 1, !.arcs = <<>>,
                             !.states = Append(@, arcs)]
    /\ UNCHANGED <<pc, varsDfa, rules, ns, first, stack, grammar, err, call, assigned, names>>

\* line 51, and line 52's call of _make_first as far as line 57
MakeGrammarRule ==
    /\ pc = "rules"
    /\ loc.ni <= Len(names)
    /\ loc.si > Len(rules[names[loc.ni]])
    /\ grammar' = [grammar EXCEPT !.states = Append(@, loc.states)]
    /\ loc' = [loc EXCEPT !.fi = 1, !.first = {}]
    /\ pc' = "make_first"
    /\ UNCHANGED <<varsDfa, rules, ns, first, stack, err, call, assigned, names>>

\* lines 58-61: one label of rawfirst
MakeFirstLabel ==
    /\ pc = "make_first"
    /\ loc.fi <= Len(first[names[loc.ni]].fset)
    /\ LET label == first[names[loc.ni]].fset[loc.fi]
           r == _make_label(ns, grammar, label)
       IN /\ call' = [label |-> label, kind |-> r.kind, ilabel |-> r.ilabel]
          /\ IF r.kind = "error"
             THEN /\ err' = [NoError EXCEPT !.kind = "unknown token", !.label = label]
                  /\ pc' = "failed"
                  /\ UNCHANGED <<grammar, loc, assigned>>
             ELSE /\ grammar' = r.g
                  /\ assigned' = (label :> r.ilabel) @@ assigned
                  /\ loc' = [loc EXCEPT !.fi = @ + 1, !.first = @ \cup {r.ilabel}]
                  /\ UNCHANGED <<pc, err>>
    /\ UNCHANGED <<varsDfa, rules, ns, first, stack, names>>

\* line 62 and the store of line 52; the loop of line 41 goes on
MakeFirstReturn ==
    /\ pc = "make_first"
    /\ loc.fi > Len(first[names[loc.ni]].fset)
    /\ grammar' = [grammar EXCEPT !.dfas =
                      @ @@ (grammar.symbol2number[names[loc.ni]] :> <<loc.states, loc.first>>)]
    /\ loc' = [loc EXCEPT !.ni = @ + 1, !.si = 1, !.ai = 1, !.arcs = <<>>, !.states = <<>>]
    /\ pc' = "rules"
    /\ UNCHANGED <<varsDfa, rules, ns, first, stack, err, call, assigned, names>>

\* line 53
MakeGrammarReturn ==
    /\ pc = "rules"
    /\ loc.ni > Len(names)
    /\ pc' = "returned"
    /\ UNCHANGED <<varsDfa, rules, ns, first, stack, grammar, loc, err, call, assigned, names>>

(***************************************************************************)
(* The grammars and token namespaces make_grammar is run on.               *)
(***************************************************************************)
MaxGrammarArcs == 3   \* arcs of an enumerated grammar, over its two rules

RuleA == <<"a">>

RuleB == <<"b">>

TokN == <<"N">>

KwX == <<"'", "x", "'">>

KwXdq == <<"\"", "x", "\"">>

KwY == <<"'", "y", "'">>

OpLt == <<"'", "<", "'">>

OpNe == <<"'", "!", "'">>

LabelPool == {RuleA, RuleB, TokN, KwX, KwXdq, OpLt}

\* name: l1 | l2 | ...
AltBody(ls) ==
    << [isfinal |-> FALSE, arcs |-> [n \in 1..Len(ls) |-> <<ls[n], 2>>]],
       [isfinal |-> TRUE, arcs |-> <<>>] >>

\* name: l1 l2 ...
SeqBody(ls) ==
    [n \in 1..(Len(ls) + 1) |->
        IF n <= Len(ls) THEN [isfinal |-> FALSE, arcs |-> << <<ls[n], n + 1>> >>]
        ELSE [isfinal |-> TRUE, arcs |-> <<>>]]

Bodies(k) ==
    {AltBody(ls) : ls \in {s \in [1..k -> LabelPool] : \A m, n \in 1..k : m # n => s[m] # s[n]}}
    \cup {SeqBody(ls) : ls \in [1..k -> LabelPool]}

SmallGrammars ==
    UNION { {(RuleA :> ba) @@ (RuleB :> bb) : ba \in Bodies(ka), bb \in Bodies(kb)} :
            <<ka, kb>> \in {p \in (1..MaxGrammarArcs) \X (1..MaxGrammarArcs) :
                                p[1] + p[2] <= MaxGrammarArcs} }

\* a: a 'x' | 'y'
GrammarLeftRecursive ==
    (RuleA :> << [isfinal |-> FALSE, arcs |-> << <<RuleA, 2>>, <<KwY, 3>> >>],
                 [isfinal |-> FALSE, arcs |-> << <<KwX, 3>> >>],
                 [isfinal |-> TRUE, arcs |-> <<>>] >>)

\* a: b | c    b: 'x'    c: 'x'
GrammarAmbiguous ==
    (RuleA :> AltBody(<<RuleB, <<"c">>>>)) @@ (RuleB :> AltBody(<<KwX>>))
    @@ (<<"c">> :> AltBody(<<KwX>>))

\* a: _b 'x'    _b: 'y'
GrammarUnderscore ==
    (RuleA :> SeqBody(<<<<"_", "b">>, KwX>>)) @@ (<<"_", "b">> :> AltBody(<<KwY>>))

\* a: b 'x'*    b: N
GrammarStar ==
    (RuleA :> << [isfinal |-> FALSE, arcs |-> << <<RuleB, 2>> >>],
                 [isfinal |-> TRUE, arcs |-> << <<KwX, 2>> >>] >>)
    @@ (RuleB :> AltBody(<<TokN>>))

\* a: '<' | '!'
GrammarNotEqual == (RuleA :> AltBody(<<OpLt, OpNe>>))

\* a: 'x' | b | a    b: 'x'
GrammarAmbiguousLeftRecursive ==
    (RuleA :> AltBody(<<KwX, RuleB, RuleA>>)) @@ (RuleB :> AltBody(<<KwX>>))

FixtureGrammars ==
    {GrammarLeftRecursive, GrammarAmbiguous, GrammarUnderscore, GrammarStar,
     GrammarNotEqual, GrammarAmbiguousLeftRecursive}

\* getattr(token_namespace, "N") finds the class N or does not; generate_token_id gives
\* the operators ids of their own, one id for both, the id of the class N, or raises
Namespaces ==
    { [named |-> (TokN :> 1), ops |-> (<<"<">> :> 2) @@ (<<"!">> :> 3)],
      [named |-> (TokN :> 1), ops |-> (<<"<">> :> 2) @@ (<<"!">> :> 2)],
      [named |-> (TokN :> 1), ops |-> (<<"<">> :> 1) @@ (<<"!">> :> 3)],
      [named |-> <<>>, ops |-> (<<"<">> :> 2) @@ (<<"!">> :> 3)],
      [named |-> (TokN :> 1), ops |-> (<<"!">> :> 3)] }

\* the variables of _make_dfas and _simplify_dfas, which this machine leaves alone
DfaIdle ==
    /\ nfa = <<>>
    /\ heap = <<>>
    /\ dfas = <<>>
    /\ idx = 0
    /\ changes = FALSE
    /\ raw = <<>>
    /\ passes = 0

\* ParserGenerator.__init__, Grammar.__init__, make_grammar's line 32 and the sorted
\* names of lines 112-113
Init ==
    /\ pc = "addfirstsets"
    /\ rules \in SmallGrammars \cup FixtureGrammars
    /\ ns \in Namespaces
    /\ first = <<>>
    /\ stack = <<>>
    /\ grammar = NewGrammar
    /\ loc = [ni |-> 1, si |-> 1, ai |-> 1, arcs |-> <<>>, states |-> <<>>,
              fi |-> 1, first |-> {}]
    /\ err = NoError
    /\ call = [label |-> <<>>, kind |-> "none", ilabel |-> 0]
    /\ assigned = <<>>
    /\ names = sorted(DOMAIN rules)
    /\ DfaIdle

Next ==
    \/ AddFirstSetsSkip
    \/ AddFirstSetsCall
    \/ CalcFirstArc
    \/ CalcFirstCall
    \/ CalcFirstRecursion
    \/ CalcFirstReturn
    \/ MakeGrammarNumber
    \/ MakeGrammarArc
    \/ MakeGrammarState
    \/ MakeGrammarRule
    \/ MakeFirstLabel
    \/ MakeFirstReturn
    \/ MakeGrammarReturn

Spec == Init /\ [][Next]_vars

(***************************************************************************)
(* The languages the claims compare.  These are the textbook definitions,  *)
(* by sets of states; they share nothing with addclosure and move_arcs.    *)
(***************************************************************************)
RECURSIVE EpsClose(_, _)
EpsClose(N, S) ==
    LET T == S \cup {t[3] : t \in {u \in SeqSet(N.arcs) : u[1] \in S /\ u[2] = None}}
    IN IF T = S THEN S ELSE EpsClose(N, T)

RECURSIVE Reach(_, _)
\* the states reachable from S by arcs of any kind
Reach(N, S) ==
    LET T == S \cup {t[3] : t \in {u \in SeqSet(N.arcs) : u[1] \in S}}
    IN IF T = S THEN S ELSE Reach(N, T)

RECURSIVE NfaRun(_, _, _)
NfaRun(N, S, w) ==
    IF w = <<>> THEN S
    ELSE NfaRun(N,
            EpsClose(N, {t[3] : t \in {u \in SeqSet(N.arcs) : u[1] \in S /\ u[2] = Head(w)}}),
            Tail(w))

NfaAccepts(N, w) == N.finish \in NfaRun(N, EpsClose(N, {N.start}), w)

RECURSIVE DfaRun(_, _, _)
\* the object reached from object id by the labels of w, or 0
DfaRun(hp, id, w) ==
    IF id = 0 \/ w = <<>> THEN id
    ELSE DfaRun(hp, arcs_get(hp[id].arcs, Head(w)), Tail(w))

DfaAccepts(hp, id, w) == DfaRun(hp, id, w) # 0 /\ hp[DfaRun(hp, id, w)].isfinal

NfaStates(N) ==
    {N.start, N.finish} \cup {t[1] : t \in SeqSet(N.arcs)} \cup {t[3] : t \in SeqSet(N.arcs)}

Alphabet(N) == {t[2] : t \in SeqSet(N.arcs)} \ {None}

Words(N) == UNION {[1..m -> Alphabet(N)] : m \in 0..MaxWord}

Returned == pc \in {"while", "for", "done"}

Done == pc = "done"

(***************************************************************************)
(* C3: _make_dfas terminates on every fragment, and what it returns        *)
(* accepts exactly the label sequences that lead the NFA from start to     *)
(* finish; no two returned states have the same nfaset.                    *)
(***************************************************************************)
C3_Equivalent ==
    /\ \A w \in Words(nfa) :
          DfaAccepts(raw.heap, raw.dfas[1], w) <=> NfaAccepts(nfa, w)
    /\ \A a, b \in 1..Len(raw.dfas) :
          a # b => SeqSet(raw.heap[raw.dfas[a]].nfaset) # SeqSet(raw.heap[raw.dfas[b]].nfaset)

\* the loop index runs up a list that holds at most one state per nonempty set of NFA
\* states, so the loop ends
C3_Terminates ==
    /\ pc = "make_dfas" =>
          /\ idx <= Len(heap) + 1
          /\ \A a, b \in 1..Len(heap) :
                a # b => SeqSet(heap[a].nfaset) # SeqSet(heap[b].nfaset)
          /\ \A a \in 1..Len(heap) :
                SeqSet(heap[a].nfaset) \in (SUBSET NfaStates(nfa)) \ {{}}

\* _make_dfas has just returned
MakeDfasReturned == pc = "while" /\ passes = 0

C3_MakeDfas == C3_Terminates /\ (MakeDfasReturned => C3_Equivalent)

\* a fragment with an epsilon cycle and a labelled loop was converted, to more than one
\* state, and accepts something
C3_Witness ==
    /\ pc = "while"
    /\ \E t \in SeqSet(nfa.arcs) : t[2] = None /\ t[1] \in EpsClose(nfa, {t[3]})
    /\ \E t \in SeqSet(nfa.arcs) : t[2] # None /\ t[1] \in Reach(nfa, {t[3]})
    /\ Len(raw.dfas) >= 2
    /\ \E w \in Words(nfa) : w # <<>> /\ NfaAccepts(nfa, w)

(***************************************************************************)
(* C2: from _make_dfas' return on, through every merge of _simplify_dfas,  *)
(* the list accepts from its first state the same label sequences, and its *)
(* first state is the one _make_dfas put first.                            *)
(***************************************************************************)
C2_SameLanguage ==
    Returned =>
        /\ dfas[1] = raw.dfas[1]
        /\ \A w \in Words(nfa) :
              DfaAccepts(heap, dfas[1], w) <=> DfaAccepts(raw.heap, raw.dfas[1], w)

C2_Witness ==
    /\ Done
    /\ Len(dfas) < Len(raw.dfas)
    /\ \E w \in Words(nfa) : w # <<>> /\ DfaAccepts(heap, dfas[1], w)

(***************************************************************************)
(* C10: _simplify_dfas terminates; a merge removes exactly one state, at   *)
(* an index j > i, and redirects every arc of the remaining states that    *)
(* pointed at it to the state at i; at the end no two states of the list   *)
(* are equal (DFAState.__eq__) and every arc leads into the list.          *)
(***************************************************************************)
C10_Merge ==
    (pc = "for" /\ dfas' # dfas) =>
        \E j \in (idx + 1)..Len(dfas) :
            /\ dfas' = RemoveAt(dfas, j)
            /\ \A n \in SeqSet(dfas') :
                  /\ Len(heap'[n].arcs) = Len(heap[n].arcs)
                  /\ heap'[n].isfinal = heap[n].isfinal
                  /\ \A m \in 1..Len(heap[n].arcs) :
                        heap'[n].arcs[m] =
                            IF heap[n].arcs[m][2] = dfas[j]
                            THEN <<heap[n].arcs[m][1], dfas[idx]>>
                            ELSE heap[n].arcs[m]

C10_Final ==
    Done =>
        /\ \A a, b \in 1..Len(dfas) : a # b => ~DFAState_eq(heap, dfas[a], dfas[b])
        /\ \A n \in SeqSet(dfas) : \A m \in 1..Len(heap[n].arcs) :
              InSeq(heap[n].arcs[m][2], dfas)

\* every pass but the last removes a state, a pass ends, and the function is never stuck
C10_Terminates ==
    /\ pc \in {"while", "for"} =>
          /\ passes + Len(dfas) <= Len(raw.dfas) + 1
          /\ Len(dfas) >= 1
    /\ pc = "for" => idx <= Len(dfas) + 1
    /\ pc \in {"while", "for"} => ENABLED NextDfa

C10_Simplify == [][C10_Merge]_vars /\ [](C10_Final /\ C10_Terminates)

\* two states were merged away, one of them with arcs pointing at it
C10_Witness ==
    /\ Done
    /\ Len(raw.dfas) >= Len(dfas) + 2
    /\ \E n \in SeqSet(dfas) : \E m \in 1..Len(heap[n].arcs) :
          heap[n].arcs[m] # raw.heap[n].arcs[m]

(***************************************************************************)
(* C8: start: 'a' 'b' | 'a' 'c' gives three states: state 0, not final,    *)
(* with one arc, on 'a', to state 1; state 1, not final, with two arcs, on *)
(* 'b' and on 'c'.  As claimed the two arcs lead to two distinct final     *)
(* states (C8_DistinctFinals); in the code both lead to the one final      *)
(* state, state 2 (C8_SharedFinal).                                        *)
(***************************************************************************)
C8_Prefix ==
    /\ Len(dfas) = 3
    /\ ~heap[dfas[1]].isfinal
    /\ heap[dfas[1]].arcs = << <<"'a'", dfas[2]>> >>
    /\ ~heap[dfas[2]].isfinal
    /\ {heap[dfas[2]].arcs[m][1] : m \in 1..Len(heap[dfas[2]].arcs)} = {"'b'", "'c'"}
    /\ Len(heap[dfas[2]].arcs) = 2

C8_DistinctFinals ==
    (nfa = NfaAbAc /\ Done) =>
        /\ C8_Prefix
        /\ heap[arcs_get(heap[dfas[2]].arcs, "'b'")].isfinal
        /\ heap[arcs_get(heap[dfas[2]].arcs, "'c'")].isfinal
        /\ arcs_get(heap[dfas[2]].arcs, "'b'") # arcs_get(heap[dfas[2]].arcs, "'c'")

C8_SharedFinal ==
    (nfa = NfaAbAc /\ Done) =>
        /\ C8_Prefix
        /\ heap[dfas[3]].isfinal
        /\ heap[dfas[3]].arcs = <<>>
        /\ arcs_get(heap[dfas[2]].arcs, "'b'") = dfas[3]
        /\ arcs_get(heap[dfas[2]].arcs, "'c'") = dfas[3]

C8_Witness == nfa = NfaAbAc /\ Done /\ Len(raw.dfas) = 4

(***************************************************************************)
(* What the claims about make_grammar speak of.                            *)
(***************************************************************************)
Failed == pc = "failed"

\* the labels on the arcs of a rule's start state
StartLabels(name) == {start_arcs(name)[n][1] : n \in 1..Len(start_arcs(name))}

\* what an arc labelled l adds to a first set: the terminal itself, or the computed
\* first set of the rule it names
Contribution(l) == IF l \in DOMAIN rules THEN SeqSet(first[l].fset) ELSE {l}

RECURSIVE LeftReach(_)
\* the rules reached from the rules S by nonterminal arcs out of start states
LeftReach(S) ==
    LET T == S \cup UNION {StartLabels(r) \cap DOMAIN rules : r \in S}
    IN IF T = S THEN S ELSE LeftReach(T)

\* rule r begins, through start-state arcs, with itself
LeftRecursive(r) == r \in LeftReach(StartLabels(r) \cap DOMAIN rules)

\* the loop of line 125 stands at an arc that names a rule whose slot holds the dummy
Revisit ==
    /\ pc = "addfirstsets"
    /\ stack # <<>>
    /\ Top.pos <= Len(start_arcs(Top.name))
    /\ start_arcs(Top.name)[Top.pos][1] \in DOMAIN rules \cap DOMAIN first
    /\ first[start_arcs(Top.name)[Top.pos][1]].inprogress

\* the loop of line 125 has visited every arc of the start state
ArcsVisited ==
    /\ pc = "addfirstsets"
    /\ stack # <<>>
    /\ Top.pos > Len(start_arcs(Top.name))

\* two distinct arcs of the start state of rule r contribute a common label
Overlap(r) ==
    \E l1, l2 \in StartLabels(r) : l1 # l2 /\ Contribution(l1) \cap Contribution(l2) # {}

(***************************************************************************)
(* C4: when _calcfirst meets, on an arc out of a start state, a rule whose *)
(* first set is in progress, the next step raises the left-recursion error *)
(* for the rule being computed, which lies on a cycle of such arcs; the    *)
(* slots in progress are those of the running calls; nothing runs after an *)
(* error, so no Grammar is returned; a: a 'x' | 'y' ends with the error    *)
(* for rule a; without a cycle the error is never raised.                  *)
(***************************************************************************)
C4_Raise ==
    Revisit => /\ pc' = "failed"
               /\ err' = [NoError EXCEPT !.kind = "recursion", !.rule = Top.name]

C4_State ==
    /\ pc = "addfirstsets" =>
          {r \in DOMAIN first : first[r].inprogress} = {stack[n].name : n \in 1..Len(stack)}
    /\ err.kind = "recursion" =>
          /\ Failed
          /\ LeftRecursive(err.rule)
          /\ \E l \in StartLabels(err.rule) \cap DOMAIN first : first[l].inprogress
    /\ (\A r \in DOMAIN rules : ~LeftRecursive(r)) => err.kind # "recursion"
    /\ (rules = GrammarLeftRecursive /\ pc \in {"failed", "returned"}) =>
          err = [NoError EXCEPT !.kind = "recursion", !.rule = RuleA]
    /\ pc = "returned" => err = NoError

C4_LeftRecursion == [][C4_Raise /\ ~Failed]_vars /\ []C4_State

\* the error was raised two calls deep: a: b ..., b: a ...
C4_Witness == err.kind = "recursion" /\ Len(stack) >= 2 /\ err.rule # stack[1].name

(***************************************************************************)
(* C5 as claimed: whenever two distinct arcs of a start state have         *)
(* contributed the same label, compilation fails with the ambiguity error  *)
(* for that rule; an ambiguity error names two such arcs.                  *)
(***************************************************************************)
Contributed(frame) ==
    \E m, n \in 1..Len(frame.overlapcheck) :
        /\ m # n
        /\ SeqSet(frame.overlapcheck[m].fset) \cap SeqSet(frame.overlapcheck[n].fset) # {}

C5_Reports ==
    err.kind = "ambiguous" =>
        /\ Failed
        /\ {err.label, err.other} \subseteq StartLabels(err.rule)
        /\ err.label # err.other
        /\ err.symbol \in Contribution(err.label) \cap Contribution(err.other)

C5_Step ==
    ArcsVisited =>
        IF Overlap(Top.name)
        THEN /\ pc' = "failed"
             /\ err'.kind = "ambiguous"
             /\ err'.rule = Top.name
             /\ {err'.label, err'.other} \subseteq StartLabels(Top.name)
             /\ err'.label # err'.other
             /\ err'.symbol \in Contribution(err'.label) \cap Contribution(err'.other)
        ELSE /\ pc' = pc
             /\ err' = NoError
             /\ ~first'[Top.name].inprogress
             /\ SeqSet(first'[Top.name].fset) =
                    UNION {Contribution(l) : l \in StartLabels(Top.name)}

C5_State ==
    /\ C5_Reports
    /\ (rules = GrammarAmbiguous /\ pc \in {"failed", "returned"}) =>
          /\ err.kind = "ambiguous"
          /\ err.rule = RuleA
          /\ err.symbol = KwX
          /\ {err.label, err.other} = {RuleB, <<"c">>}

C1_DistinctLabelIds ==
    pc = "returned" =>
        \A number \in DOMAIN grammar.dfas :
            \A n \in 1..Len(grammar.dfas[number][1]) :
                \A i, j \in 1..Len(grammar.dfas[number][1][n]) :
                    i # j => grammar.dfas[number][1][n][i][1] # grammar.dfas[number][1][n][j][1]

(***************************************************************************)
(* C6 as claimed: after every call of _make_label the ids assigned are     *)
(* exactly 0 .. N-1, N the length of labels; two distinct grammar labels   *)
(* (labels that differ by more than their quotes) never have the same id;  *)
(* id 0 is never returned.                                                 *)
(***************************************************************************)
Range(f) == {f[x] : x \in DOMAIN f}

AssignedIds ==
    {0} \cup Range(grammar.symbol2label) \cup Range(grammar.tokens) \cup Range(grammar.keywords)

\* what a label text denotes: a literal's value, or a name
Denotes(label) ==
    IF label[1] \in Quotes THEN <<"literal", eval(label)>> ELSE <<"name", label>>

C6_Dense == AssignedIds = 0..(Len(grammar.labels) - 1)

C6_NeverZero == call.kind \notin {"none", "error"} => call.ilabel # 0

C6_LabelDensity ==
    /\ C6_Dense
    /\ C6_NeverZero
    /\ \A l1, l2 \in DOMAIN assigned :
          Denotes(l1) # Denotes(l2) => assigned[l1] # assigned[l2]

(***************************************************************************)
(* C7 as claimed: a step of _make_first leaves labels, tokens, keywords    *)
(* and symbol2label as they were.                                          *)
(***************************************************************************)
C7_Unchanged ==
    pc = "make_first" =>
        /\ grammar'.labels = grammar.labels
        /\ grammar'.tokens = grammar.tokens
        /\ grammar'.keywords = grammar.keywords
        /\ grammar'.symbol2label = grammar.symbol2label

C7_MakeFirstFrame == [][C7_Unchanged]_vars

(***************************************************************************)
(* C7 as amended: a step of _make_first leaves symbol2label as it was and  *)
(* keeps every entry of labels, tokens and keywords; it adds a label only  *)
(* for a first-set label that no earlier call of _make_label was given,    *)
(* and reuses the id of one that was.                                      *)
(***************************************************************************)
C7_Extends ==
    (pc = "make_first" /\ loc.fi <= Len(first[names[loc.ni]].fset)) =>
        /\ grammar'.symbol2label = grammar.symbol2label
        /\ grammar'.label2symbol = grammar.label2symbol
        /\ SubSeq(grammar'.labels, 1, Len(grammar.labels)) = grammar.labels
        /\ \A k \in DOMAIN grammar.tokens :
              k \in DOMAIN grammar'.tokens /\ grammar'.tokens[k] = grammar.tokens[k]
        /\ \A k \in DOMAIN grammar.keywords :
              k \in DOMAIN grammar'.keywords /\ grammar'.keywords[k] = grammar.keywords[k]
        /\ first[names[loc.ni]].fset[loc.fi] \in DOMAIN assigned =>
              /\ grammar' = grammar
              /\ call'.ilabel = assigned[first[names[loc.ni]].fset[loc.fi]]
        /\ Len(grammar'.labels) <= Len(grammar.labels) + 1

C7_MakeFirstExtends == [][C7_Extends]_vars

\* the labels on the arcs of rule name
ArcLabels(name) ==
    UNION {{rules[name][m].arcs[k][1] : k \in 1..Len(rules[name][m].arcs)} :
              m \in 1..Len(rules[name])}

\* _make_first has just created a label, for a label on no arc translated so far
C7_Witness ==
    /\ pc = "make_first"
    /\ loc.fi > 1
    /\ call.ilabel = Len(grammar.labels) - 1
    /\ call.label \notin UNION {ArcLabels(names[n]) : n \in 1..loc.ni}

(***************************************************************************)
(* C9 as claimed: a label that names a known rule is a nonterminal         *)
(* whatever its first character; else one that names a known terminal      *)
(* class is a token; else a quoted literal whose content starts with a     *)
(* letter is a keyword; else a quoted literal is an operator; anything     *)
(* else is a fatal error.  Each kind is deduplicated through its table.    *)
(***************************************************************************)
QuotedKind(label) ==
    IF isalpha(eval(label)[1]) THEN "keyword"
    ELSE IF eval(label) \in DOMAIN ns.ops THEN "operator"
    ELSE "error"

ClaimedKind(label) ==
    IF label \in DOMAIN rules THEN "symbol"
    ELSE IF label \in DOMAIN ns.named THEN "token"
    ELSE IF label[1] \in Quotes THEN QuotedKind(label)
    ELSE "error"

\* the id of the last call is the entry of the table its kind is deduplicated through
Deduplicated ==
    /\ call.kind = "symbol" =>
          /\ grammar.symbol2label[call.label] = call.ilabel
          /\ grammar.labels[call.ilabel + 1] = <<grammar.symbol2number[call.label], None>>
    /\ call.kind = "token" =>
          /\ grammar.tokens[ns.named[call.label]] = call.ilabel
          /\ grammar.labels[call.ilabel + 1][2] = None
    /\ call.kind = "keyword" =>
          /\ grammar.keywords[eval(call.label)] = call.ilabel
          /\ grammar.labels[call.ilabel + 1] = <<TOKEN_NAME, eval(call.label)>>
    /\ call.kind = "operator" =>
          /\ grammar.tokens[ns.ops[eval(call.label)]] = call.ilabel
          /\ grammar.labels[call.ilabel + 1][2] = None
    /\ call.kind = "error" =>
          /\ Failed
          /\ err.kind = "unknown token"
          /\ err.label = call.label

C9_KnownRuleFirst ==
    call.kind # "none" => (call.kind = ClaimedKind(call.label) /\ Deduplicated)

(***************************************************************************)
(* C9 as amended: the first character decides first.  A label that starts  *)
(* with a letter is a nonterminal if it names a known rule, else a token   *)
(* if it names a known terminal class, else a fatal error; a label that    *)
(* starts with a quote is a keyword if its content starts with a letter,   *)
(* else an operator if the token namespace resolves it, else a fatal       *)
(* error; any other label is a fatal error, also when it names a known     *)
(* rule.  Each kind is deduplicated through its table.                     *)
(***************************************************************************)
KindByShape(label) ==
    IF isalpha(label[1])
    THEN (IF label \in DOMAIN rules THEN "symbol"
          ELSE IF label \in DOMAIN ns.named THEN "token"
          ELSE "error")
    ELSE IF label[1] \in Quotes THEN QuotedKind(label)
    ELSE "error"

C9_FirstCharacterFirst ==
    call.kind # "none" => (call.kind = KindByShape(call.label) /\ Deduplicated)

\* a known rule whose name does not start with a letter was refused
C9_Witness == call.kind = "error" /\ call.label \in DOMAIN rules /\ Failed

====
